---- MODULE Spec2Model ----
(***************************************************************************)
(* A model of swarm-rs: the tool registry (src/src/types.rs) and the       *)
(* orchestration loop Swarm::run with its tool dispatch and result         *)
(* normalisation (src/src/swarm.rs).                                       *)
(*                                                                         *)
(* JSON values (serde_json::Value) are tagged records:                     *)
(*   [t |-> "null"], [t |-> "bool", v |-> b], [t |-> "num", v |-> n],      *)
(*   [t |-> "str", v |-> s], [t |-> "arr", v |-> <<...>>],                 *)
(*   [t |-> "obj", v |-> f]  with f a function from key strings to values. *)
(* Option<T> is [some |-> FALSE] or [some |-> TRUE, val |-> x].            *)
(* HashMap<String, String> is a function from a finite set of strings.     *)
(***************************************************************************)
EXTENDS Integers, Sequences, FiniteSets, TLC

VARIABLES
    registry,           \* Swarm.registry: [tools, functions]
    regLog,             \* the register_tool calls made so far (ghost)
    pc,                 \* position of the run call: idle, loop, await, dispatch, done
    args,               \* the arguments the caller passed to run
    active_agent,       \* run's local active_agent
    context_variables,  \* run's local context_variables
    history,            \* run's local history
    init_len,           \* run's local init_len
    completion,         \* the tool_calls of the completion being processed
    idx,                \* 1-based position of handle_tool_calls' for loop
    partial_response,   \* handle_tool_calls' local partial_response
    requests,           \* the completion requests built so far (ghost)
    answers,            \* what the service answered to each request (ghost)
    invoked,            \* the handler invocations made so far (ghost)
    result              \* what run gave back to its caller

vars == <<registry, regLog, pc, args, active_agent, context_variables, history,
          init_len, completion, idx, partial_response, requests, answers, invoked,
          result>>

runVars == <<pc, args, active_agent, context_variables, history, init_len,
             completion, idx, partial_response, requests, answers, invoked, result>>

-----------------------------------------------------------------------------
(* Bounds of the model.                                                    *)

\* The completion service is asked at most this many times in one run.
MaxRequests == 2
\* The completion service requests at most this many tool calls in one run.
MaxCalls == 2
\* The finite values of max_turns the caller passes are 0..MaxTurns.
MaxTurns == 2
\* The number of register_tool calls made on one registry.
MaxRegs == 3

-----------------------------------------------------------------------------
(* Option and map helpers.                                                 *)

None == [some |-> FALSE]
Some(x) == [some |-> TRUE, val |-> x]

EmptyMap == <<>>

\* HashMap::insert: the new value replaces any value stored under the key.
MapInsert(m, k, x) == [j \in DOMAIN m \cup {k} |-> IF j = k THEN x ELSE m[j]]

\* (variant: a key already present keeps its value)
MapExtendKeepFirst(a, b) ==
    [k \in DOMAIN a \cup DOMAIN b |-> IF k \in DOMAIN a THEN a[k] ELSE b[k]]

\* HashMap::extend: every pair of b is inserted into a, replacing a's value.
MapExtend(a, b) == [k \in DOMAIN a \cup DOMAIN b |-> IF k \in DOMAIN b THEN b[k] ELSE a[k]]

RECURSIVE Join(_)
Join(ss) ==
    IF ss = <<>> THEN ""
    ELSE IF Len(ss) = 1 THEN Head(ss)
    ELSE Head(ss) \o "," \o Join(Tail(ss))

-----------------------------------------------------------------------------
(* serde_json values.                                                      *)

JNull == [t |-> "null"]
JBool(b) == [t |-> "bool", v |-> b]
JNum(n) == [t |-> "num", v |-> n]
JStr(s) == [t |-> "str", v |-> s]
JArr(s) == [t |-> "arr", v |-> s]
JObj(f) == [t |-> "obj", v |-> f]

\* Every object key the model uses, in the byte order serde_json's map keeps.
KeyOrder ==
    <<"agent", "assistant", "context_variables", "description", "instructions",
      "location", "model", "name", "parallel_tool_calls", "parameters", "temp",
      "tool_choice", "tools", "type", "unit", "units", "user", "value">>

SortedKeys(f) == SelectSeq(KeyOrder, LAMBDA k : k \in DOMAIN f)

\* Value::as_str
as_str(j) == IF j.t = "str" THEN Some(j.v) ELSE None

\* Value::to_string / serde_json::to_string: compact JSON text.
RECURSIVE to_string(_)
to_string(j) ==
    CASE j.t = "null" -> "null"
      [] j.t = "bool" -> (IF j.v THEN "true" ELSE "false")
      [] j.t = "num" -> ToString(j.v)
      [] j.t = "str" -> "\"" \o j.v \o "\""
      [] j.t = "arr" ->
            "[" \o Join([i \in 1..Len(j.v) |-> to_string(j.v[i])]) \o "]"
      [] j.t = "obj" ->
            LET ks == SortedKeys(j.v)
            IN  "{" \o Join([i \in 1..Len(ks) |->
                        "\"" \o ks[i] \o "\":" \o to_string(j.v[ks[i]])]) \o "}"

\* serde_json::to_value(&HashMap<String, String>)
MapToJson(m) == JObj([k \in DOMAIN m |-> JStr(m[k])])

-----------------------------------------------------------------------------
(* types.rs: Tool, Agent, ToolResult and their serde forms.                *)

Tool_new(name, description, parameters) ==
    [name |-> name, description |-> description, parameters |-> parameters]

\* #[derive(Deserialize)] for Tool: three required fields.
ToolFromJson(j) ==
    IF /\ j.t = "obj"
       /\ {"name", "description", "parameters"} \subseteq DOMAIN j.v
       /\ j.v["name"].t = "str"
       /\ j.v["description"].t = "str"
    THEN Some(Tool_new(j.v["name"].v, j.v["description"].v, j.v["parameters"]))
    ELSE None

\* #[derive(Deserialize)] for Agent, from a JSON object: name, model,
\* instructions, tools and parallel_tool_calls are required, tool_choice is an
\* Option (absent or null gives None), unknown keys are ignored.
AgentFromJson(j) ==
    IF /\ j.t = "obj"
       /\ {"name", "model", "instructions", "tools", "parallel_tool_calls"}
              \subseteq DOMAIN j.v
       /\ j.v["name"].t = "str"
       /\ j.v["model"].t = "str"
       /\ j.v["instructions"].t = "str"
       /\ j.v["tools"].t = "arr"
       /\ \A i \in 1..Len(j.v["tools"].v) : ToolFromJson(j.v["tools"].v[i]).some
       /\ j.v["parallel_tool_calls"].t = "bool"
       /\ ("tool_choice" \in DOMAIN j.v => j.v["tool_choice"].t \in {"null", "str"})
    THEN Some([name |-> j.v["name"].v,
               model |-> j.v["model"].v,
               instructions |-> j.v["instructions"].v,
               tools |-> [i \in 1..Len(j.v["tools"].v) |->
                              ToolFromJson(j.v["tools"].v[i]).val],
               tool_choice |->
                   IF "tool_choice" \in DOMAIN j.v /\ j.v["tool_choice"].t = "str"
                   THEN Some(j.v["tool_choice"].v)
                   ELSE None,
               parallel_tool_calls |-> j.v["parallel_tool_calls"].v])
    ELSE None

\* #[derive(Deserialize)] for ToolResult, from a JSON object: value (a string)
\* and context_variables (an object of strings) are required, agent is an
\* Option<Agent>.
ToolResultFromJson(j) ==
    IF /\ j.t = "obj"
       /\ {"value", "context_variables"} \subseteq DOMAIN j.v
       /\ j.v["value"].t = "str"
       /\ j.v["context_variables"].t = "obj"
       /\ \A k \in DOMAIN j.v["context_variables"].v :
              j.v["context_variables"].v[k].t = "str"
       /\ ("agent" \in DOMAIN j.v /\ j.v["agent"].t # "null"
              => AgentFromJson(j.v["agent"]).some)
    THEN Some([value |-> j.v["value"].v,
               agent |->
                   IF "agent" \in DOMAIN j.v /\ j.v["agent"].t # "null"
                   THEN AgentFromJson(j.v["agent"])
                   ELSE None,
               context_variables |->
                   [k \in DOMAIN j.v["context_variables"].v |->
                        j.v["context_variables"].v[k].v]])
    ELSE None

\* #[derive(Serialize)] for Tool and Agent (what a handler that hands off
\* builds with serde_json::to_value).
ToolToJson(tl) ==
    JObj([name |-> JStr(tl.name), description |-> JStr(tl.description),
          parameters |-> tl.parameters])

AgentToJson(a) ==
    JObj([name |-> JStr(a.name), model |-> JStr(a.model),
          instructions |-> JStr(a.instructions),
          tools |-> JArr([i \in 1..Len(a.tools) |-> ToolToJson(a.tools[i])]),
          tool_choice |-> IF a.tool_choice.some THEN JStr(a.tool_choice.val) ELSE JNull,
          parallel_tool_calls |-> JBool(a.parallel_tool_calls)])

-----------------------------------------------------------------------------
(* types.rs: ToolRegistry.                                                 *)

ToolRegistry_new == [tools |-> EmptyMap, functions |-> EmptyMap]

\* (variant: a name already registered keeps its first entry)
register_tool_keep_first(reg, name, description, parameters, function) ==
    IF name \in DOMAIN reg.functions THEN reg
    ELSE [tools |-> MapInsert(reg.tools, name, Tool_new(name, description, parameters)),
          functions |-> MapInsert(reg.functions, name, function)]

register_tool(reg, name, description, parameters, function) ==
    [tools |-> MapInsert(reg.tools, name, Tool_new(name, description, parameters)),
     functions |-> MapInsert(reg.functions, name, function)]

get_function(reg, name) ==
    IF name \in DOMAIN reg.functions THEN Some(reg.functions[name]) ELSE None

get_tool(reg, name) ==
    IF name \in DOMAIN reg.tools THEN Some(reg.tools[name]) ELSE None

-----------------------------------------------------------------------------
(* The agents and handlers of the modelled deployments.                    *)

ObjectSchema == JObj([type |-> JStr("object")])

WeatherTool == Tool_new("get_weather", "Get the weather for a given location", ObjectSchema)
RefundTool == Tool_new("refund", "Refund an order", ObjectSchema)

\* The agent the caller passes to run (examples/function_calling.rs).
WeatherAgent ==
    [name |-> "Weather Agent", model |-> "gpt-4",
     instructions |->
         "You are a helpful weather assistant. Use the weather tool to check conditions.",
     tools |-> <<WeatherTool>>, tool_choice |-> None, parallel_tool_calls |-> TRUE]

\* Agents that handlers hand off to.
BillingAgent ==
    [name |-> "Billing Agent", model |-> "gpt-4o-mini",
     instructions |-> "You handle billing questions.",
     tools |-> <<RefundTool>>, tool_choice |-> Some("auto"), parallel_tool_calls |-> FALSE]

SalesAgent ==
    [name |-> "Sales Agent", model |-> "gpt-3.5-turbo",
     instructions |-> "You sell things.",
     tools |-> <<>>, tool_choice |-> None, parallel_tool_calls |-> TRUE]

\* The closures registered as handlers, named by what they return.
Handlers ==
    {"weather_json", "weather_f", "weather_c", "to_billing", "to_sales",
     "billing_nested", "order_partial", "order_count", "forecast_text"}

\* func(Value::Object(args_with_context)): the raw result of handler h.
CallHandler(h, a) ==
    CASE h = "weather_json" ->
            \* the handler of examples/function_calling.rs
            JObj([temp |-> JNum(67), unit |-> JStr("F"),
                  location |->
                      IF "location" \in DOMAIN a.v /\ as_str(a.v["location"]).some
                      THEN JStr(as_str(a.v["location"]).val)
                      ELSE JStr("Unknown")])
      [] h = "weather_f" ->
            JObj([value |-> JStr("67F"),
                  context_variables |-> JObj([units |-> JStr("F")])])
      [] h = "weather_c" ->
            JObj([value |-> JStr("19C"),
                  context_variables |-> JObj([units |-> JStr("C")])])
      [] h = "to_billing" ->
            JObj([value |-> JStr("transferred to billing"),
                  agent |-> AgentToJson(BillingAgent),
                  context_variables |-> JObj([user |-> JStr("bob")])])
      [] h = "to_sales" ->
            \* carries both a value key and an assistant key
            JObj([value |-> JStr("transferred to sales"),
                  assistant |-> JStr("Sales Agent"),
                  agent |-> AgentToJson(SalesAgent),
                  context_variables |-> JObj(EmptyMap)])
      [] h = "billing_nested" ->
            \* the agent nested under an assistant key, and no value key
            JObj([assistant |-> AgentToJson(BillingAgent)])
      [] h = "order_partial" ->
            \* a value key without the context_variables key
            JObj([value |-> JStr("order 7 shipped")])
      [] h = "order_count" ->
            \* a value key whose value is a number
            JObj([value |-> JNum(67), context_variables |-> JObj(EmptyMap)])
      [] h = "forecast_text" ->
            JStr("sunny")

-----------------------------------------------------------------------------
(* swarm.rs: Swarm::handle_function_result.                                *)

\* (variant: the assistant key is looked for before the value key)
handle_function_result_assistant_first(raw_result) ==
    IF raw_result.t = "obj" /\ "assistant" \in DOMAIN raw_result.v THEN
        LET parsed == AgentFromJson(raw_result)
        IN  IF parsed.some
            THEN [panic |-> FALSE,
                  val |-> [value |-> to_string(raw_result),
                           agent |-> parsed,
                           context_variables |-> EmptyMap]]
            ELSE [panic |-> TRUE]
    ELSE IF raw_result.t = "obj" /\ "value" \in DOMAIN raw_result.v THEN
        LET parsed == ToolResultFromJson(raw_result)
        IN  IF parsed.some
            THEN [panic |-> FALSE, val |-> parsed.val]
            ELSE [panic |-> FALSE,
                  val |-> [value |->
                               IF as_str(raw_result.v["value"]).some
                               THEN as_str(raw_result.v["value"]).val
                               ELSE "",
                           agent |-> None,
                           context_variables |-> EmptyMap]]
    ELSE
        [panic |-> FALSE,
         val |-> [value |->
                      IF as_str(raw_result).some
                      THEN as_str(raw_result).val
                      ELSE to_string(raw_result),
                  agent |-> None,
                  context_variables |-> EmptyMap]]

\* (variant: a value object that is not a ToolResult fails the call)
handle_function_result_strict(raw_result) ==
    IF raw_result.t = "obj" /\ "value" \in DOMAIN raw_result.v THEN
        LET parsed == ToolResultFromJson(raw_result)
        IN  IF parsed.some
            THEN [panic |-> FALSE, val |-> parsed.val]
            ELSE [panic |-> TRUE]
    ELSE IF raw_result.t = "obj" /\ "assistant" \in DOMAIN raw_result.v THEN
        LET parsed == AgentFromJson(raw_result)
        IN  IF parsed.some
            THEN [panic |-> FALSE,
                  val |-> [value |-> to_string(raw_result),
                           agent |-> parsed,
                           context_variables |-> EmptyMap]]
            ELSE [panic |-> TRUE]
    ELSE
        [panic |-> FALSE,
         val |-> [value |->
                      IF as_str(raw_result).some
                      THEN as_str(raw_result).val
                      ELSE to_string(raw_result),
                  agent |-> None,
                  context_variables |-> EmptyMap]]

\* (variant: the last branch always serialises the raw result)
handle_function_result_serialising(raw_result) ==
    IF raw_result.t = "obj" /\ "value" \in DOMAIN raw_result.v THEN
        LET parsed == ToolResultFromJson(raw_result)
        IN  IF parsed.some
            THEN [panic |-> FALSE, val |-> parsed.val]
            ELSE [panic |-> FALSE,
                  val |-> [value |->
                               IF as_str(raw_result.v["value"]).some
                               THEN as_str(raw_result.v["value"]).val
                               ELSE "",
                           agent |-> None,
                           context_variables |-> EmptyMap]]
    ELSE IF raw_result.t = "obj" /\ "assistant" \in DOMAIN raw_result.v THEN
        LET parsed == AgentFromJson(raw_result)
        IN  IF parsed.some
            THEN [panic |-> FALSE,
                  val |-> [value |-> to_string(raw_result),
                           agent |-> parsed,
                           context_variables |-> EmptyMap]]
            ELSE [panic |-> TRUE]
    ELSE
        [panic |-> FALSE,
         val |-> [value |-> to_string(raw_result),
                  agent |-> None,
                  context_variables |-> EmptyMap]]

\* The result is [panic |-> FALSE, val |-> ToolResult], or [panic |-> TRUE] where
\* the unwrap of a failed Agent parse panics.
handle_function_result(raw_result) ==
    IF raw_result.t = "obj" /\ "value" \in DOMAIN raw_result.v THEN
        LET parsed == ToolResultFromJson(raw_result)
        IN  IF parsed.some
            THEN [panic |-> FALSE, val |-> parsed.val]
            ELSE [panic |-> FALSE,
                  val |-> [value |->
                               IF as_str(raw_result.v["value"]).some
                               THEN as_str(raw_result.v["value"]).val
                               ELSE "",
                           agent |-> None,
                           context_variables |-> EmptyMap]]
    ELSE IF raw_result.t = "obj" /\ "assistant" \in DOMAIN raw_result.v THEN
        LET parsed == AgentFromJson(raw_result)
        IN  IF parsed.some
            THEN [panic |-> FALSE,
                  val |-> [value |-> to_string(raw_result),
                           agent |-> parsed,
                           context_variables |-> EmptyMap]]
            ELSE [panic |-> TRUE]
    ELSE
        [panic |-> FALSE,
         val |-> [value |->
                      IF as_str(raw_result).some
                      THEN as_str(raw_result).val
                      ELSE to_string(raw_result),
                  agent |-> None,
                  context_variables |-> EmptyMap]]

-----------------------------------------------------------------------------
(* Inputs: what the caller registers and passes, what the service answers. *)

Registration(name, description, function) ==
    [name |-> name, description |-> description, parameters |-> ObjectSchema,
     function |-> function]

\* The registry after the register_tool calls of log, made in order.
RECURSIVE RegistryOf(_)
RegistryOf(log) ==
    IF log = <<>> THEN ToolRegistry_new
    ELSE LET r == log[Len(log)]
         IN  register_tool(RegistryOf(SubSeq(log, 1, Len(log) - 1)),
                           r.name, r.description, r.parameters, r.function)

\* The register_tool calls a caller makes before run, one sequence per deployment.
Deployments ==
    { <<Registration("get_weather", "Get the weather (json)", "weather_json"),
        Registration("get_weather", "Get the weather for a given location", "weather_f"),
        Registration("set_celsius", "Switch to celsius", "weather_c")>>,
      <<Registration("transfer_to_billing", "Hand off to billing", "to_billing"),
        Registration("transfer_to_sales", "Hand off to sales", "to_sales")>>,
      <<Registration("get_weather", "Get the weather for a given location", "weather_json"),
        Registration("get_forecast", "Get the forecast", "forecast_text")>>,
      <<Registration("lookup_order", "Look an order up", "order_partial"),
        Registration("count_orders", "Count the orders", "order_count")>>,
      <<Registration("transfer_to_billing", "Hand off to billing", "billing_nested"),
        Registration("get_forecast", "Get the forecast", "forecast_text")>> }

\* What register_tool is called with when the registry itself is explored.
RegNames == {"get_weather", "transfer_to_billing"}
RegDescriptions == {"first description", "second description"}
RegFunctions == {"weather_json", "weather_f", "to_billing"}

\* A tool name no deployment registers.
UnknownTool == "delete_everything"

UserMsg(text) ==
    [role |-> "user", content |-> Some(text), tool_calls |-> None, tool_call_id |-> None]

AssistantMsg(content, tool_calls) ==
    [role |-> "assistant", content |-> content, tool_calls |-> tool_calls,
     tool_call_id |-> None]

ToolMsg(content, id) ==
    [role |-> "tool", content |-> Some(content), tool_calls |-> None,
     tool_call_id |-> Some(id)]

InitialMessages == {<<>>, <<UserMsg("What is the weather like in Boston?")>>}

InitialContexts == {None, Some([units |-> "K"])}

MaxTurnsChoices == {None} \cup {Some(n) : n \in 0..MaxTurns}

\* The argument payloads the service sends, and serde_json::from_str of each.
ArgPayloads == {"{\"location\":\"Boston\"}", "{bad", "[1]"}

from_str(payload) ==
    CASE payload = "{\"location\":\"Boston\"}" -> Some(JObj([location |-> JStr("Boston")]))
      [] payload = "[1]" -> Some(JArr(<<JNum(1)>>))
      [] OTHER -> None

\* The number of tool calls the assistant messages of h carry.
RECURSIVE CallsIn(_)
CallsIn(h) ==
    IF h = <<>> THEN 0
    ELSE (IF Head(h).role = "assistant" /\ Head(h).tool_calls.some
          THEN Len(Head(h).tool_calls.val) ELSE 0) + CallsIn(Tail(h))

\* (variant: the whole history is taken)
AppendedWhole == history

\* history[init_len..]
Appended == SubSeq(history, init_len + 1, Len(history))

ToolCall(id, name, arguments) == [id |-> id, name |-> name, arguments |-> arguments]

\* The tool-call lists of n calls the service may send next.
ToolCallLists(n) ==
    LET first == CallsIn(Appended)
        names == DOMAIN registry.functions \cup {UnknownTool}
        picks == [1..n -> names \X ArgPayloads]
    IN  { [i \in 1..n |-> ToolCall("call_" \o ToString(first + i), p[i][1], p[i][2])]
              : p \in picks }

-----------------------------------------------------------------------------
(* The state before run is called.                                         *)

Undefined == [some |-> FALSE]

RunIdle ==
    /\ pc = "idle"
    /\ args = Undefined
    /\ active_agent = Undefined
    /\ context_variables = EmptyMap
    /\ history = <<>>
    /\ init_len = 0
    /\ completion = <<>>
    /\ idx = 0
    /\ partial_response = Undefined
    /\ requests = <<>>
    /\ answers = <<>>
    /\ invoked = <<>>
    /\ result = [kind |-> "none"]

\* A swarm whose caller has made the register_tool calls of one deployment.
Init ==
    /\ regLog \in Deployments
    /\ registry = RegistryOf(regLog)
    /\ RunIdle

\* A swarm right after Swarm::new.
InitRegistry ==
    /\ regLog = <<>>
    /\ registry = ToolRegistry_new
    /\ RunIdle

-----------------------------------------------------------------------------
(* types.rs: ToolRegistry::register_tool, reached through                  *)
(* Swarm::register_tool.  It borrows the swarm mutably, so it cannot run   *)
(* while a run call is in progress.                                        *)

RegisterTool(name, description, function) ==
    /\ pc = "idle"
    /\ Len(regLog) < MaxRegs
    /\ registry' = register_tool(registry, name, description, ObjectSchema, function)
    /\ regLog' = Append(regLog, Registration(name, description, function))
    /\ UNCHANGED runVars

-----------------------------------------------------------------------------
(* swarm.rs: Swarm::get_chat_completion builds the request from the agent  *)
(* and the history.                                                        *)

BuildRequest(agent, h) ==
    [max_tokens |-> 512,
     model |-> agent.model,
     messages |-> h,
     tools |-> IF agent.tools = <<>> THEN None ELSE Some(agent.tools)]

-----------------------------------------------------------------------------
(* swarm.rs: Swarm::run.                                                   *)

Response(messages, agent, cv) ==
    [messages |-> messages, agent |-> agent, context_variables |-> cv]

Ok(response) == [kind |-> "ok", response |-> response]
Err(what) == [kind |-> "err", error |-> what]
Panic(what) == [kind |-> "panic", message |-> what]

\* The arguments of run.  model_override and debug (printing only) are left out:
\* the loop never reads them.  execute_tools is kept, though never read either.
RunArgs(agent, messages, cv, stream, max_turns, execute_tools) ==
    [agent |-> agent, messages |-> messages, context_variables |-> cv,
     stream |-> stream, max_turns |-> max_turns, execute_tools |-> execute_tools]

\* run(.., stream = true, ..): run_and_stream is unimplemented!().
RunStream ==
    /\ pc = "idle"
    /\ \E messages \in InitialMessages, cv \in InitialContexts,
          mt \in MaxTurnsChoices, et \in BOOLEAN :
           args' = RunArgs(WeatherAgent, messages, cv, TRUE, mt, et)
    /\ pc' = "done"
    /\ result' = Panic("not implemented")
    /\ UNCHANGED <<registry, regLog, active_agent, context_variables, history,
                   init_len, completion, idx, partial_response, requests, answers,
                   invoked>>

\* run(.., stream = false, ..) up to the loop.
RunBegin ==
    /\ pc = "idle"
    /\ \E messages \in InitialMessages, cv \in InitialContexts,
          mt \in MaxTurnsChoices, et \in BOOLEAN :
           /\ args' = RunArgs(WeatherAgent, messages, cv, FALSE, mt, et)
           /\ active_agent' = WeatherAgent
           /\ context_variables' = (IF cv.some THEN cv.val ELSE EmptyMap)
           /\ history' = messages
           /\ init_len' = Len(messages)
    /\ pc' = "loop"
    /\ UNCHANGED <<registry, regLog, completion, idx, partial_response, requests,
                   answers,
                   invoked, result>>

\* (variant: the loop goes on while the appended messages are at most max_turns)
LoopGuardInclusive ==
    IF args.max_turns.some THEN Len(history) - init_len <= args.max_turns.val ELSE TRUE

\* while history.len() - init_len < max_turns, with max_turns.unwrap_or(usize::MAX):
\* a history never reaches usize::MAX messages.
LoopGuard ==
    IF args.max_turns.some THEN Len(history) - init_len < args.max_turns.val ELSE TRUE

\* The loop condition fails: run returns what it has.
LoopExit ==
    /\ pc = "loop"
    /\ ~LoopGuard
    /\ pc' = "done"
    /\ result' = Ok(Response(Appended, Some(active_agent), context_variables))
    /\ UNCHANGED <<registry, regLog, args, active_agent, context_variables, history,
                   init_len, completion, idx, partial_response, requests, answers,
                   invoked>>

\* The loop condition holds: the request is built and sent, run awaits the answer.
GetChatCompletion ==
    /\ pc = "loop"
    /\ LoopGuard
    /\ Len(requests) < MaxRequests
    /\ requests' = Append(requests, BuildRequest(active_agent, history))
    /\ pc' = "await"
    /\ UNCHANGED <<registry, regLog, args, active_agent, context_variables, history,
                   init_len, completion, idx, partial_response, answers, invoked,
                   result>>

\* (variant: a failed request returns what the earlier turns produced)
CompletionFailsReturnsPartial ==
    /\ pc = "await"
    /\ pc' = "done"
    /\ result' = Ok(Response(Appended, Some(active_agent), context_variables))
    /\ answers' = Append(answers, [kind |-> "failure"])
    /\ UNCHANGED <<registry, regLog, args, active_agent, context_variables, history,
                   init_len, completion, idx, partial_response, requests, invoked>>

\* The request fails: the ? operator returns the error.
CompletionFails ==
    /\ pc = "await"
    /\ pc' = "done"
    /\ result' = Err("completion request failed")
    /\ answers' = Append(answers, [kind |-> "failure"])
    /\ UNCHANGED <<registry, regLog, args, active_agent, context_variables, history,
                   init_len, completion, idx, partial_response, requests, invoked>>

\* The service answers with no choice: choices.first().unwrap() panics.
CompletionNoChoice ==
    /\ pc = "await"
    /\ pc' = "done"
    /\ result' = Panic("called Option::unwrap() on a None value")
    /\ answers' = Append(answers, [kind |-> "no choice"])
    /\ UNCHANGED <<registry, regLog, args, active_agent, context_variables, history,
                   init_len, completion, idx, partial_response, requests, invoked>>

\* The answer has tool_calls = None: the message is pushed, the loop breaks.
CompletionNoToolCalls ==
    /\ pc = "await"
    /\ history' = Append(history, AssistantMsg(Some("It is sunny."), None))
    /\ pc' = "done"
    /\ result' = Ok(Response(SubSeq(history', init_len + 1, Len(history')),
                             Some(active_agent), context_variables))
    /\ answers' = Append(answers, [kind |-> "message", tool_calls |-> None])
    /\ UNCHANGED <<registry, regLog, args, active_agent, context_variables, init_len,
                   completion, idx, partial_response, requests, invoked>>

EmptyPartial == Response(<<>>, None, EmptyMap)

\* (variant: with execute_tools = false the tool calls are returned unexecuted)
CompletionToolCallsHonouringFlag ==
    /\ pc = "await"
    /\ \E n \in 0..(MaxCalls - CallsIn(Appended)) : \E calls \in ToolCallLists(n) :
           /\ history' = Append(history, AssistantMsg(None, Some(calls)))
           /\ completion' = calls
           /\ answers' = Append(answers, [kind |-> "message", tool_calls |-> Some(calls)])
           /\ partial_response' = EmptyPartial
           /\ IF ~args.execute_tools
              THEN /\ idx' = 0
                   /\ pc' = "done"
                   /\ result' = Ok(Response(SubSeq(history', init_len + 1, Len(history')),
                                            Some(active_agent), context_variables))
              ELSE /\ UNCHANGED result
                   /\ IF calls = <<>>
                      THEN idx' = 0 /\ pc' = "loop"
                      ELSE idx' = 1 /\ pc' = "dispatch"
    /\ UNCHANGED <<registry, regLog, args, active_agent, context_variables, init_len,
                   requests, invoked>>

\* The answer has tool_calls = Some(calls): the message is pushed and
\* handle_tool_calls starts on calls.  With no call to process it returns an empty
\* partial response at once, and extending by it changes nothing.
CompletionToolCalls ==
    /\ pc = "await"
    /\ \E n \in 0..(MaxCalls - CallsIn(Appended)) : \E calls \in ToolCallLists(n) :
           /\ history' = Append(history, AssistantMsg(None, Some(calls)))
           /\ completion' = calls
           /\ answers' = Append(answers, [kind |-> "message", tool_calls |-> Some(calls)])
           /\ partial_response' = EmptyPartial
           /\ IF calls = <<>>
              THEN idx' = 0 /\ pc' = "loop"
              ELSE idx' = 1 /\ pc' = "dispatch"
    /\ UNCHANGED <<registry, regLog, args, active_agent, context_variables, init_len,
                   requests, invoked, result>>

-----------------------------------------------------------------------------
(* swarm.rs: Swarm::handle_tool_calls, one iteration of its for loop per   *)
(* step, and run's merge of the partial response after the last one.       *)

\* (variant: a handoff is marked by a system message in the history)
EndIterationMarkingHandoff(pr) ==
    IF idx < Len(completion)
    THEN /\ idx' = idx + 1
         /\ partial_response' = pr
         /\ pc' = "dispatch"
         /\ UNCHANGED <<history, context_variables, active_agent>>
    ELSE /\ idx' = 0
         /\ partial_response' = pr
         /\ history' = history \o pr.messages \o
                (IF pr.agent.some
                 THEN <<[role |-> "system",
                         content |-> Some("switched to " \o pr.agent.val.name),
                         tool_calls |-> None, tool_call_id |-> None]>>
                 ELSE <<>>)
         /\ context_variables' = MapExtend(context_variables, pr.context_variables)
         /\ active_agent' = (IF pr.agent.some THEN pr.agent.val ELSE active_agent)
         /\ pc' = "loop"

\* The loop body ends with partial response pr: the next call, or back in run.
EndIteration(pr) ==
    IF idx < Len(completion)
    THEN /\ idx' = idx + 1
         /\ partial_response' = pr
         /\ pc' = "dispatch"
         /\ UNCHANGED <<history, context_variables, active_agent>>
    ELSE /\ idx' = 0
         /\ partial_response' = pr
         /\ history' = history \o pr.messages
         /\ context_variables' = MapExtend(context_variables, pr.context_variables)
         /\ active_agent' = (IF pr.agent.some THEN pr.agent.val ELSE active_agent)
         /\ pc' = "loop"

\* (variant: an unknown tool name ends the run with an error)
DispatchNotFoundFatal ==
    /\ pc = "dispatch"
    /\ ~get_function(registry, completion[idx].name).some
    /\ pc' = "done"
    /\ result' = Err("tool not found")
    /\ UNCHANGED <<registry, regLog, args, active_agent, context_variables, history,
                   init_len, completion, idx, partial_response, requests, answers,
                   invoked>>

\* The name is not in the registry: a not-found message is pushed.
DispatchNotFound ==
    /\ pc = "dispatch"
    /\ LET call == completion[idx]
       IN  /\ ~get_function(registry, call.name).some
           /\ EndIteration(
                  [partial_response EXCEPT
                      !.messages = Append(@,
                          ToolMsg("error: tool " \o call.name \o " not found.", call.id))])
    /\ UNCHANGED <<registry, regLog, args, init_len, completion, requests, answers,
                   invoked,
                   result>>

\* The handler is found but the arguments are not JSON (expect panics) or not a
\* JSON object (as_object().unwrap() panics).
DispatchBadArguments ==
    /\ pc = "dispatch"
    /\ LET call == completion[idx]
           parsed == from_str(call.arguments)
       IN  /\ get_function(registry, call.name).some
           /\ \/ /\ ~parsed.some
                 /\ result' = Panic("Failed to parse arguments")
              \/ /\ parsed.some
                 /\ parsed.val.t # "obj"
                 /\ result' = Panic("called Option::unwrap() on a None value")
    /\ pc' = "done"
    /\ UNCHANGED <<registry, regLog, args, active_agent, context_variables, history,
                   init_len, completion, idx, partial_response, requests, answers,
                   invoked>>

\* (variant: the context variables returned earlier in the turn are injected too)
ArgsWithContextLive(parsed, cv, pr) ==
    JObj(MapInsert(parsed.v, "context_variables",
                   MapToJson(MapExtend(cv, pr.context_variables))))

\* Step 3 of the loop body: the context variables run holds are inserted into
\* the parsed arguments under the key context_variables.  The partial response
\* of the turn is not read.
ArgsWithContext(parsed, cv, pr) ==
    JObj(MapInsert(parsed.v, "context_variables", MapToJson(cv)))

\* (variant: the first agent returned in a turn is kept)
UpdatePartialFirstAgent(pr, res, call) ==
    [messages |-> Append(pr.messages, ToolMsg(res.value, call.id)),
     context_variables |-> MapExtend(pr.context_variables, res.context_variables),
     agent |-> IF pr.agent.some THEN pr.agent ELSE res.agent]

\* Step 5 of the loop body: the tool message is pushed, the context variables
\* of the result extend those of the partial response, and an agent in the result
\* replaces the agent of the partial response.
UpdatePartial(pr, res, call) ==
    [messages |-> Append(pr.messages, ToolMsg(res.value, call.id)),
     context_variables |-> MapExtend(pr.context_variables, res.context_variables),
     agent |-> IF res.agent.some THEN res.agent ELSE pr.agent]

\* The handler is found and called with the arguments and the context variables.
DispatchInvoke ==
    /\ pc = "dispatch"
    /\ LET call == completion[idx]
           func == get_function(registry, call.name)
           parsed == from_str(call.arguments)
       IN  /\ func.some
           /\ parsed.some
           /\ parsed.val.t = "obj"
           /\ LET args_with_context ==
                      ArgsWithContext(parsed.val, context_variables, partial_response)
                  raw_result == CallHandler(func.val, args_with_context)
                  res == handle_function_result(raw_result)
              IN  /\ invoked' = Append(invoked,
                         [id |-> call.id, name |-> call.name, function |-> func.val,
                          args |-> args_with_context, returned |-> raw_result,
                          turn |-> Len(requests)])
                  /\ IF res.panic
                     THEN /\ result' = Panic("called Result::unwrap() on an Err value")
                          /\ pc' = "done"
                          /\ UNCHANGED <<active_agent, context_variables, history, idx,
                                         partial_response>>
                     ELSE /\ EndIteration(UpdatePartial(partial_response, res.val, call))
                          /\ UNCHANGED result
    /\ UNCHANGED <<registry, regLog, args, init_len, completion, requests, answers>>

-----------------------------------------------------------------------------

Next ==
    \/ RunStream
    \/ RunBegin
    \/ LoopExit
    \/ GetChatCompletion
    \/ CompletionFails
    \/ CompletionNoChoice
    \/ CompletionNoToolCalls
    \/ CompletionToolCalls
    \/ DispatchNotFound
    \/ DispatchBadArguments
    \/ DispatchInvoke

Spec == Init /\ [][Next]_vars

NextRegistry ==
    \E name \in RegNames, description \in RegDescriptions, function \in RegFunctions :
        RegisterTool(name, description, function)

SpecRegistry == InitRegistry /\ [][NextRegistry]_vars

\* run with a completion service that always answers and handlers that always
\* return: a step that can be taken is taken.
SpecFair == Spec /\ WF_vars(Next)

-----------------------------------------------------------------------------
(* Properties.                                                             *)

Last(q) == q[Len(q)]

\* The messages this run call has produced so far, those of the partial
\* response of a turn in progress included.
Produced ==
    Appended \o (IF pc = "dispatch" THEN partial_response.messages ELSE <<>>)

\* An assistant message that carries no tool call: the list is absent or empty.
ToolFree(m) ==
    m.role = "assistant" /\ (~m.tool_calls.some \/ m.tool_calls.val = <<>>)

\* C1: with max_turns = N, run never appends more than N messages to the
\* history, neither during the loop nor in the Response it returns.
C1_AppendedWithinMaxTurns ==
    (pc # "idle" /\ ~args.stream /\ args.max_turns.some) =>
        /\ Len(history) - init_len <= args.max_turns.val
        /\ (result.kind = "ok" =>
                Len(result.response.messages) <= args.max_turns.val)

\* C2: once the service has answered with an assistant message that carries
\* no tool call (list absent or empty), run is not awaiting another completion
\* nor dispatching, and when it has returned it has returned that message last,
\* successfully.
C2_ToolFreeAnswerEndsRun ==
    (Len(Appended) > 0 /\ ToolFree(Last(Appended))) =>
        /\ pc \notin {"await", "dispatch"}
        /\ (pc = "done" =>
                /\ result.kind = "ok"
                /\ Last(result.response.messages) = Last(Appended))

\* C3: run called with stream = true returns an error value (not a panic, not
\* a Response) and has sent no completion request and invoked no handler.
C3_StreamIsAnErrorResult ==
    (pc = "done" /\ args.stream) =>
        /\ result.kind = "err"
        /\ requests = <<>>
        /\ invoked = <<>>

\* C4: when the loop body reaches a tool call whose argument payload is not
\* JSON, run ends there with an error result: no panic, no Response, no skip.
C4_BadArgumentsAreAnErrorResult ==
    [][(pc = "dispatch" /\ ~from_str(completion[idx].arguments).some) =>
           (pc' = "done" /\ result'.kind = "err")]_vars

\* C5: a tool call naming an unregistered tool invokes no handler, adds exactly
\* one Tool message with the call's id and a not-found content to the turn's
\* messages, leaves the turn's context variables and agent as they were, and
\* dispatch goes on with the next call: run does not end because of it.
C5_UnknownToolIsRecoverable ==
    [][(pc = "dispatch" /\ ~get_function(registry, completion[idx].name).some) =>
           LET call == completion[idx]
           IN  /\ invoked' = invoked
               /\ partial_response'.messages =
                      Append(partial_response.messages,
                             ToolMsg("error: tool " \o call.name \o " not found.", call.id))
               /\ partial_response'.context_variables = partial_response.context_variables
               /\ partial_response'.agent = partial_response.agent
               /\ result' = result
               /\ pc' # "done"
               /\ (idx < Len(completion) =>
                      /\ pc' = "dispatch" /\ idx' = idx + 1
                      /\ context_variables' = context_variables
                      /\ active_agent' = active_agent)
               /\ (idx = Len(completion) =>
                      /\ pc' = "loop"
                      /\ Len(history') = Len(history) + Len(partial_response.messages) + 1
                      /\ Last(history') = Last(partial_response'.messages))]_vars

\* C5 witness: run has returned a Response in which the not-found message of an
\* unknown tool is followed by the message of a handler called after it.
C5_Witness ==
    /\ pc = "done"
    /\ result.kind = "ok"
    /\ \E i \in 1..(Len(result.response.messages) - 1) :
           /\ result.response.messages[i].role = "tool"
           /\ result.response.messages[i].content =
                  Some("error: tool delete_everything not found.")
           /\ result.response.messages[i + 1].role = "tool"
           /\ result.response.messages[i + 1].content = Some("67F")
           /\ invoked # <<>>

Max(S) == CHOOSE x \in S : \A y \in S : y <= x

\* The loop is between two turns, or run has returned a Response: every handler
\* invocation made so far belongs to a turn whose results have been merged.
TurnsMerged == pc = "loop" \/ (pc = "done" /\ result.kind = "ok")

\* What the i-th handler invocation returned, once normalised.
ReturnedCv(i) ==
    LET r == handle_function_result(invoked[i].returned)
    IN  IF r.panic THEN EmptyMap ELSE r.val.context_variables

ReturnedAgent(i) ==
    LET r == handle_function_result(invoked[i].returned)
    IN  IF r.panic THEN None ELSE r.val.agent

InitialCv ==
    IF args.context_variables.some THEN args.context_variables.val ELSE EmptyMap

\* The invocations that returned a value for key k, and those that returned an agent.
Writers(k) == {i \in 1..Len(invoked) : k \in DOMAIN ReturnedCv(i)}
Handoffs == {i \in 1..Len(invoked) : ReturnedAgent(i).some}

ContextKeys == {"units", "user"}

\* C6: after the turns merged so far, each context variable holds the value
\* returned by the latest call (in the order the model returned the calls) that
\* returned its key, and the caller's initial value when no call did; the
\* returned Response holds that map.
C6_ContextLastWriteWins ==
    TurnsMerged =>
        /\ DOMAIN context_variables =
               DOMAIN InitialCv \cup {k \in ContextKeys : Writers(k) # {}}
        /\ \A k \in DOMAIN context_variables :
               context_variables[k] =
                   IF Writers(k) # {} THEN ReturnedCv(Max(Writers(k)))[k] ELSE InitialCv[k]
        /\ (pc = "done" => result.response.context_variables = context_variables)

\* C6 witness: the caller passed units = K; in one turn a call returned
\* units = C and a later call units = F; the Response holds units = F.
C6_Witness ==
    /\ pc = "done"
    /\ result.kind = "ok"
    /\ args.context_variables = Some([units |-> "K"])
    /\ Len(requests) = 1
    /\ Len(invoked) = 2
    /\ invoked[1].function = "weather_c"
    /\ invoked[2].function = "weather_f"
    /\ result.response.context_variables["units"] = "F"

\* C7: after the turns merged so far, the active agent is the one returned by
\* the latest call that returned an agent, and the caller's agent when no call
\* did; the returned Response carries the active agent.
C7_LastHandoffWins ==
    TurnsMerged =>
        /\ active_agent =
               IF Handoffs # {} THEN ReturnedAgent(Max(Handoffs)).val ELSE args.agent
        /\ (pc = "done" => result.response.agent = Some(active_agent))

\* C7 witness: two calls of one turn each returned an agent, sales first and
\* billing second; the Response carries the billing agent.
C7_Witness ==
    /\ pc = "done"
    /\ result.kind = "ok"
    /\ Len(requests) = 1
    /\ Len(invoked) = 2
    /\ invoked[1].function = "to_sales"
    /\ invoked[2].function = "to_billing"
    /\ result.response.agent = Some(BillingAgent)

\* The request carries the instructions as a system message.
CarriesInstructions(r, instructions) ==
    \E i \in 1..Len(r.messages) :
        /\ r.messages[i].role = "system"
        /\ r.messages[i].content = Some(instructions)

AdvertisedTools(r) == IF r.tools.some THEN r.tools.val ELSE <<>>

\* C8: a completion request sent after a handoff uses the replacement agent's
\* model and instructions and advertises exactly the replacement agent's tools.
C8_RequestBuiltFromReplacement ==
    (pc = "await" /\ Handoffs # {}) =>
        LET r == Last(requests)
        IN  /\ r.model = active_agent.model
            /\ AdvertisedTools(r) = active_agent.tools
            /\ CarriesInstructions(r, active_agent.instructions)

\* The indices of the register_tool calls made with this name.
RegisteredAs(name) == {i \in 1..Len(regLog) : regLog[i].name = name}

\* C9: after any sequence of register_tool calls the registry holds one entry
\* per distinct registered name; get_function and get_tool give the handler and
\* the spec of the latest registration under a name, and nothing for a name
\* never registered.
C9_LastRegistrationWins ==
    /\ DOMAIN registry.functions = {regLog[i].name : i \in 1..Len(regLog)}
    /\ DOMAIN registry.tools = {regLog[i].name : i \in 1..Len(regLog)}
    /\ \A name \in RegNames \cup {UnknownTool} :
           IF RegisteredAs(name) = {}
           THEN /\ get_function(registry, name) = None
                /\ get_tool(registry, name) = None
           ELSE LET r == regLog[Max(RegisteredAs(name))]
                IN  /\ get_function(registry, name) = Some(r.function)
                    /\ get_tool(registry, name) =
                           Some(Tool_new(name, r.description, r.parameters))

\* C9 witness: one name registered twice, with two handlers and two
\* descriptions; lookup gives the second handler.
C9_Witness ==
    /\ Len(regLog) = 2
    /\ regLog[1].name = regLog[2].name
    /\ regLog[1].function # regLog[2].function
    /\ regLog[1].description # regLog[2].description
    /\ Cardinality(DOMAIN registry.functions) = 1
    /\ get_function(registry, regLog[1].name) = Some(regLog[2].function)

KnownAgents == {WeatherAgent, BillingAgent, SalesAgent}

\* The raw result is an object of the full structured shape: a string value, a
\* context_variables object of strings, and no agent or the JSON form of an agent.
FullShape(raw) ==
    /\ raw.t = "obj"
    /\ "value" \in DOMAIN raw.v
    /\ raw.v["value"].t = "str"
    /\ "context_variables" \in DOMAIN raw.v
    /\ raw.v["context_variables"].t = "obj"
    /\ \A k \in DOMAIN raw.v["context_variables"].v :
           raw.v["context_variables"].v[k].t = "str"
    /\ ("agent" \in DOMAIN raw.v =>
           \/ raw.v["agent"].t = "null"
           \/ \E a \in KnownAgents : raw.v["agent"] = AgentToJson(a))

HasAgent(raw) == "agent" \in DOMAIN raw.v /\ raw.v["agent"].t # "null"

\* C10: a raw result with a value key and the full structured shape, with or
\* without an assistant key beside it, is normalised to its value, its context
\* variables and its agent (none when it has none); its Tool message carries the
\* value; once its turn is merged the context map holds its variables, and
\* results without an agent leave the caller's agent active.
C10_StructuredResult ==
    \A i \in 1..Len(invoked) :
        LET raw == invoked[i].returned
        IN  FullShape(raw) =>
                /\ LET r == handle_function_result(raw)
                   IN  /\ ~r.panic
                       /\ r.val.value = raw.v["value"].v
                       /\ DOMAIN r.val.context_variables =
                              DOMAIN raw.v["context_variables"].v
                       /\ \A k \in DOMAIN r.val.context_variables :
                              r.val.context_variables[k] =
                                  raw.v["context_variables"].v[k].v
                       /\ r.val.agent.some = HasAgent(raw)
                       /\ (HasAgent(raw) => AgentToJson(r.val.agent.val) = raw.v["agent"])
                /\ (result.kind # "panic" =>
                       \E j \in 1..Len(Produced) :
                           Produced[j] = ToolMsg(raw.v["value"].v, invoked[i].id))
                /\ ((TurnsMerged /\ i = Len(invoked)) =>
                       /\ \A k \in DOMAIN raw.v["context_variables"].v :
                              /\ k \in DOMAIN context_variables
                              /\ context_variables[k] = raw.v["context_variables"].v[k].v
                       /\ (HasAgent(raw) =>
                              AgentToJson(active_agent) = raw.v["agent"])
                       /\ ((\A j \in 1..Len(invoked) :
                                 FullShape(invoked[j].returned)
                                 /\ ~HasAgent(invoked[j].returned)) =>
                              active_agent = args.agent))

\* C10 witness: the one handler called returned
\* {"value": "67F", "context_variables": {"units": "F"}}; the Response has the
\* Tool message 67F, units = F and the caller's agent.
C10_Witness ==
    /\ pc = "done"
    /\ result.kind = "ok"
    /\ Len(invoked) = 1
    /\ invoked[1].returned =
           JObj([value |-> JStr("67F"),
                 context_variables |-> JObj([units |-> JStr("F")])])
    /\ \E j \in 1..Len(result.response.messages) :
           result.response.messages[j] = ToolMsg("67F", invoked[1].id)
    /\ result.response.context_variables["units"] = "F"
    /\ result.response.agent = Some(args.agent)

\* The raw result is an object with an assistant key and no value key.
AssistantShape(raw) ==
    raw.t = "obj" /\ "assistant" \in DOMAIN raw.v /\ "value" \notin DOMAIN raw.v

\* C11: a raw result {"assistant": {"name": ..}} without a value key is
\* normalised, without failing the run, to a result whose agent is set and has
\* the name given under assistant, whose value is the JSON text of the object
\* and whose context variables are empty.
C11_AssistantObjectIsAHandoff ==
    \A i \in 1..Len(invoked) :
        LET raw == invoked[i].returned
            r == handle_function_result(raw)
        IN  AssistantShape(raw) =>
                /\ ~r.panic
                /\ result.kind # "panic"
                /\ r.val.agent.some
                /\ r.val.agent.val.name = raw.v["assistant"].v["name"].v
                /\ r.val.value = to_string(raw)
                /\ r.val.context_variables = EmptyMap

\* The raw result is an object with a value key that is not of the full
\* structured shape.
Degraded(raw) == raw.t = "obj" /\ "value" \in DOMAIN raw.v /\ ~FullShape(raw)

\* The panic of handle_function_result's unwrap.
ResultPanic == Panic("called Result::unwrap() on an Err value")

\* C12 as stated: a value object that is not of the full shape never fails the
\* run and is normalised to the value field as a string (its text when it is
\* not a JSON string), no agent and no context variables; its Tool message
\* carries that string.
C12_DegradedValueAsString ==
    \A i \in 1..Len(invoked) :
        LET raw == invoked[i].returned
            r == handle_function_result(raw)
            text == IF raw.v["value"].t = "str" THEN raw.v["value"].v
                    ELSE to_string(raw.v["value"])
        IN  Degraded(raw) =>
                /\ ~r.panic
                /\ result # ResultPanic
                /\ r.val.value = text
                /\ ~r.val.agent.some
                /\ r.val.context_variables = EmptyMap
                /\ (result.kind # "panic" =>
                       \E j \in 1..Len(Produced) :
                           Produced[j] = ToolMsg(text, invoked[i].id))

\* C12 as amended: a value object that is not of the full shape never fails the
\* run and is normalised to the value field when that field is a JSON string and
\* to the empty string when it is not, with no agent and no context variables;
\* its Tool message carries that string, and a run whose handlers returned only
\* such objects keeps the caller's agent and context variables.
C12_DegradedResult ==
    \A i \in 1..Len(invoked) :
        LET raw == invoked[i].returned
            r == handle_function_result(raw)
            text == IF raw.v["value"].t = "str" THEN raw.v["value"].v ELSE ""
        IN  Degraded(raw) =>
                /\ ~r.panic
                /\ result # ResultPanic
                /\ r.val.value = text
                /\ ~r.val.agent.some
                /\ r.val.context_variables = EmptyMap
                /\ (result.kind # "panic" =>
                       \E j \in 1..Len(Produced) :
                           Produced[j] = ToolMsg(text, invoked[i].id))
                /\ ((TurnsMerged /\ \A j \in 1..Len(invoked) : Degraded(invoked[j].returned))
                       => /\ active_agent = args.agent
                          /\ context_variables = InitialCv)

\* C12 witness: a handler returned {"value": 67, "context_variables": {}} and a
\* handler {"value": "order 7 shipped"}; the Response carries an empty Tool
\* message for the first and the string for the second.
C12_Witness ==
    /\ pc = "done"
    /\ result.kind = "ok"
    /\ Len(invoked) = 2
    /\ invoked[1].function = "order_count"
    /\ invoked[2].function = "order_partial"
    /\ \E j \in 1..(Len(result.response.messages) - 1) :
           /\ result.response.messages[j] = ToolMsg("", invoked[1].id)
           /\ result.response.messages[j + 1] = ToolMsg("order 7 shipped", invoked[2].id)

IsPrefix(p, q) == Len(p) <= Len(q) /\ SubSeq(q, 1, Len(p)) = p

\* C13: the caller's messages stay an unchanged prefix of the history and of the
\* messages of every completion request; the Response of a successful run holds
\* exactly the messages after that prefix, in history order, and none of the
\* caller's messages.
C13_ResponseIsTheAppendedSlice ==
    (pc # "idle" /\ ~args.stream) =>
        /\ IsPrefix(args.messages, history)
        /\ \A i \in 1..Len(requests) :
               /\ IsPrefix(args.messages, requests[i].messages)
               /\ IsPrefix(requests[i].messages, history)
        /\ (result.kind = "ok" =>
               /\ history = args.messages \o result.response.messages
               /\ \A j \in 1..Len(result.response.messages) :
                      \A k \in 1..Len(args.messages) :
                          result.response.messages[j] # args.messages[k])

\* C13 witness: a run called with one message has returned three appended ones.
C13_Witness ==
    /\ pc = "done"
    /\ result.kind = "ok"
    /\ Len(args.messages) = 1
    /\ Len(result.response.messages) = 3
    /\ Len(history) = 4

\* C14: when the latest answer of the service is a failure, run has returned
\* an error and no Response (no message, context variable or agent of the
\* earlier turns comes back), and every handler invocation made belongs to an
\* earlier turn.
C14_CompletionFailureDiscardsAll ==
    (answers # <<>> /\ Last(answers).kind = "failure") =>
        /\ pc = "done"
        /\ result.kind = "err"
        /\ DOMAIN result = {"kind", "error"}
        /\ \A i \in 1..Len(invoked) : invoked[i].turn < Len(answers)

\* C14 witness: the second request fails after a first turn that handed off to
\* billing and set a context variable.
C14_Witness ==
    /\ Len(answers) = 2
    /\ answers[2].kind = "failure"
    /\ Len(invoked) = 1
    /\ invoked[1].function = "to_billing"
    /\ active_agent = BillingAgent
    /\ "user" \in DOMAIN context_variables
    /\ Len(history) - init_len = 2
    /\ result.kind = "err"

\* The tool calls the service has requested so far, in order.
RECURSIVE CallsOf(_)
CallsOf(as) ==
    IF as = <<>> THEN <<>>
    ELSE (IF Head(as).kind = "message" /\ Head(as).tool_calls.some
          THEN Head(as).tool_calls.val ELSE <<>>) \o CallsOf(Tail(as))

\* Those of them that name a registered tool.
RegisteredCalls ==
    SelectSeq(CallsOf(answers), LAMBDA c : get_function(registry, c.name).some)

\* The context variables and the agent that the caller's arguments and the
\* handler results determine.
ExpectedCv ==
    [k \in DOMAIN InitialCv \cup {j \in ContextKeys : Writers(j) # {}} |->
        IF Writers(k) # {} THEN ReturnedCv(Max(Writers(k)))[k] ELSE InitialCv[k]]

ExpectedAgent ==
    IF Handoffs # {} THEN ReturnedAgent(Max(Handoffs)).val ELSE args.agent

\* C15: whatever the value of execute_tools, and so with execute_tools = false
\* as with true, the handlers invoked are exactly those of the registered tool
\* calls the service requested, in order, and the Response is the one that the
\* other arguments, the service's answers and the handlers' results determine.
C15_ExecuteToolsHasNoEffect ==
    (TurnsMerged /\ args.execute_tools \in BOOLEAN) =>
        /\ [i \in 1..Len(invoked) |-> invoked[i].id] =
               [i \in 1..Len(RegisteredCalls) |-> RegisteredCalls[i].id]
        /\ (pc = "done" =>
               /\ Len(result.response.messages) = Len(answers) + Len(CallsOf(answers))
               /\ \A i \in 1..Len(CallsOf(answers)) :
                      \E j \in 1..Len(result.response.messages) :
                          /\ result.response.messages[j].role = "tool"
                          /\ result.response.messages[j].tool_call_id =
                                 Some(CallsOf(answers)[i].id)
               /\ result.response.agent = Some(ExpectedAgent)
               /\ result.response.context_variables = ExpectedCv)

\* C15 witness: a run with execute_tools = false has invoked a handler, gone on
\* to a second request and returned.
C15_Witness ==
    /\ pc = "done"
    /\ result.kind = "ok"
    /\ ~args.execute_tools
    /\ Len(invoked) = 1
    /\ Len(requests) = 2
    /\ Len(result.response.messages) = 3

\* The raw result is neither an object with a value key nor an object with an
\* assistant key.
Plain(raw) ==
    ~(raw.t = "obj" /\ ("value" \in DOMAIN raw.v \/ "assistant" \in DOMAIN raw.v))

\* The weather object of examples/function_calling.rs for Boston, and its JSON text.
BostonWeather ==
    JObj([location |-> JStr("Boston"), temp |-> JNum(67), unit |-> JStr("F")])

BostonWeatherText == "{\"location\":\"Boston\",\"temp\":67,\"unit\":\"F\"}"

\* C16: a raw result that is neither a value object nor an assistant object
\* never fails the call and is normalised to no agent, no context variables and
\* a value that is the string itself for a JSON string and the JSON text of the
\* result otherwise; the Tool message of the call carries that value.
C16_PlainResultIsItsText ==
    \A i \in 1..Len(invoked) :
        LET raw == invoked[i].returned
            r == handle_function_result(raw)
        IN  Plain(raw) =>
                /\ ~r.panic
                /\ r.val.agent = None
                /\ r.val.context_variables = EmptyMap
                /\ (raw.t = "str" => r.val.value = raw.v)
                /\ (raw.t # "str" => r.val.value = to_string(raw))
                /\ (raw = JStr("sunny") => r.val.value = "sunny")
                /\ (raw = BostonWeather => r.val.value = BostonWeatherText)
                /\ (i = Len(invoked) => result # ResultPanic)
                /\ (result.kind # "panic" =>
                       \E j \in 1..Len(Produced) :
                           Produced[j] = ToolMsg(r.val.value, invoked[i].id))

\* C16 witness: one turn called a handler that returned the string sunny and a
\* handler that returned the weather object; the Response carries sunny and
\* the JSON text of the object as Tool messages.
C16_Witness ==
    /\ pc = "done"
    /\ result.kind = "ok"
    /\ Len(invoked) = 2
    /\ {invoked[1].returned, invoked[2].returned} = {JStr("sunny"), BostonWeather}
    /\ \E j, k \in 1..Len(result.response.messages) :
           /\ result.response.messages[j].role = "tool"
           /\ result.response.messages[j].content = Some("sunny")
           /\ result.response.messages[k].role = "tool"
           /\ result.response.messages[k].content = Some(BostonWeatherText)

\* The role, the tool calls and the correlated call id of a message.
Shape(m) == [role |-> m.role, tool_calls |-> m.tool_calls, tool_call_id |-> m.tool_call_id]

\* The shapes the turns answered so far append when they run to their end: per
\* answer an assistant message with the answer's tool calls, then one Tool
\* message per call, in the order of the calls.
RECURSIVE TurnShapes(_)
TurnShapes(as) ==
    IF as = <<>> THEN <<>>
    ELSE LET calls == IF Head(as).kind = "message" /\ Head(as).tool_calls.some
                      THEN Head(as).tool_calls.val ELSE <<>>
         IN  (IF Head(as).kind = "message"
              THEN <<[role |-> "assistant", tool_calls |-> Head(as).tool_calls,
                      tool_call_id |-> None]>>
              ELSE <<>>)
             \o [i \in 1..Len(calls) |->
                    [role |-> "tool", tool_calls |-> None,
                     tool_call_id |-> Some(calls[i].id)]]
             \o TurnShapes(Tail(as))

ShapesOf(msgs) == [j \in 1..Len(msgs) |-> Shape(msgs[j])]

\* C17: the messages a run appends are, turn by turn, the assistant message of
\* the answer followed by one Tool message per tool call c1..ck of the answer,
\* the i-th with the id of ci; in the middle of a turn they are a prefix of
\* that, and the caller's messages stay as passed.  No other message is
\* appended, by a handoff or otherwise.
C17_TurnAppendsAssistantThenToolMessages ==
    (pc # "idle" /\ ~args.stream) =>
        /\ SubSeq(history, 1, init_len) = args.messages
        /\ IsPrefix(ShapesOf(Produced), TurnShapes(answers))
        /\ (TurnsMerged => ShapesOf(Appended) = TurnShapes(answers))
        /\ \A j \in 1..Len(Produced) : Produced[j].role \in {"assistant", "tool"}

\* C17 witness: a turn with two tool calls, one of them a handoff, has been
\* merged and the run has returned its four messages.
C17_Witness ==
    /\ pc = "done"
    /\ result.kind = "ok"
    /\ Len(answers) = 2
    /\ answers[1].tool_calls.some
    /\ Len(answers[1].tool_calls.val) = 2
    /\ Handoffs # {}
    /\ Len(result.response.messages) = 4
    /\ result.response.messages[2].tool_call_id = Some(answers[1].tool_calls.val[1].id)
    /\ result.response.messages[3].tool_call_id = Some(answers[1].tool_calls.val[2].id)

\* The invocations of the turns before turn t that returned a value for key k.
WritersBefore(k, t) == {j \in Writers(k) : invoked[j].turn < t}

\* The merged context variables at the start of turn t: the caller's map
\* overwritten by what the handlers of the earlier turns returned.
TurnStartCv(t) ==
    [k \in DOMAIN InitialCv \cup {j \in ContextKeys : WritersBefore(j, t) # {}} |->
        IF WritersBefore(k, t) # {}
        THEN ReturnedCv(Max(WritersBefore(k, t)))[k]
        ELSE InitialCv[k]]

\* C18: the map a handler receives under the key context_variables is the
\* merged map at the start of its turn: it holds what the handlers of earlier
\* turns returned and nothing of what earlier calls of the same turn returned.
C18_InjectedContextIsTurnStart ==
    \A i \in 1..Len(invoked) :
        /\ "context_variables" \in DOMAIN invoked[i].args.v
        /\ invoked[i].args.v["context_variables"] =
               MapToJson(TurnStartCv(invoked[i].turn))

\* C18 witness: the caller passed units = K; in one turn a first handler
\* returned units = C and a second handler was then called and received
\* units = K.
C18_Witness ==
    /\ Len(invoked) = 2
    /\ invoked[1].turn = invoked[2].turn
    /\ InitialCv = [units |-> "K"]
    /\ ReturnedCv(1) = [units |-> "C"]
    /\ invoked[2].args.v["context_variables"] = JObj([units |-> JStr("K")])

\* A handler of the second turn received units = C, returned in the first turn.
C18_NextTurnSeesIt ==
    /\ Len(invoked) = 2
    /\ invoked[1].turn < invoked[2].turn
    /\ InitialCv = [units |-> "K"]
    /\ ReturnedCv(1) = [units |-> "C"]
    /\ invoked[2].args.v["context_variables"] = JObj([units |-> JStr("C")])

\* The positions of the Tool messages of msgs that carry the call id.
ToolMessagesFor(msgs, id) ==
    {j \in 1..Len(msgs) : msgs[j].role = "tool" /\ msgs[j].tool_call_id = Some(id)}

\* The call about to be dispatched names a registered tool and its argument
\* payload parses as JSON.
ParsableRegisteredCall ==
    /\ pc = "dispatch"
    /\ get_function(registry, completion[idx].name).some
    /\ from_str(completion[idx].arguments).some

\* C19: the dispatch of a call that names a registered tool and whose payload
\* parses as JSON, to whatever JSON value, invokes the handler once, appends
\* one Tool message with the call's id and does not abort the run.
C19_ParsableArgumentsInvokeHandler ==
    [][ParsableRegisteredCall =>
           /\ Len(invoked') = Len(invoked) + 1
           /\ Last(invoked').id = completion[idx].id
           /\ result'.kind # "panic"
           /\ Cardinality(ToolMessagesFor(Produced', completion[idx].id)) = 1]_vars

\* C19, restricted to handlers whose result normalises: the same dispatch when
\* the handler's result is not one that handle_function_result panics on.
C19_ParsableArgumentsOfSoundHandler ==
    [][(ParsableRegisteredCall
          /\ get_function(registry, completion[idx].name) # Some("billing_nested")) =>
           /\ Len(invoked') = Len(invoked) + 1
           /\ result'.kind # "panic"]_vars

\* Every answer so far carried a non-empty list of tool calls.
AlwaysToolCalls ==
    \A i \in 1..Len(answers) :
        /\ answers[i].kind = "message"
        /\ answers[i].tool_calls.some
        /\ answers[i].tool_calls.val # <<>>

\* The bounds on the completion requests of a run.
C20_RequestsWithinMaxTurns ==
    (pc # "idle" /\ ~args.stream) =>
        /\ (args.max_turns.some => Len(requests) <= args.max_turns.val)
        /\ (args.max_turns = Some(0) =>
               /\ requests = <<>>
               /\ pc \in {"loop", "done"}
               /\ (pc = "done" =>
                      result = Ok(Response(<<>>, Some(args.agent), InitialCv))))
        /\ (~args.max_turns.some =>
               /\ (pc = "loop" => LoopGuard)
               /\ ((pc = "done" /\ result.kind = "ok") =>
                      (answers # <<>> /\ ~AlwaysToolCalls)))

\* C20: with max_turns = N a run issues at most N completion requests and,
\* when the service always answers and the handlers always return, it
\* terminates, even if every answer carries tool calls; with max_turns = 0 it
\* issues no request and returns no message, the caller's agent and the
\* caller's context variables.  Without max_turns the loop condition always
\* holds, and a run whose answers all carry tool calls does not return.
C20_FiniteMaxTurnsTerminates ==
    /\ []C20_RequestsWithinMaxTurns
    /\ ((pc # "idle" /\ args.max_turns.some) ~> (pc = "done"))

\* C20 witness: with max_turns = 1 the one answer carried two tool calls, both
\* handlers were invoked, no second request was issued and the run has returned.
C20_Witness ==
    /\ pc = "done"
    /\ result.kind = "ok"
    /\ args.max_turns = Some(1)
    /\ Len(requests) = 1
    /\ answers # <<>>
    /\ AlwaysToolCalls
    /\ Len(invoked) = 2

====
